---- MODULE Spec2Model ----
(***************************************************************************)
(* The step-execution engine of You_Only_Do_Once: Executor.execute,        *)
(* Executor.executeStep and Executor.dryRun (modules/executor.js), the     *)
(* tool registry MCPTools.executeTool (modules/mcp-tools.js) and the       *)
(* filesystem and shell adapters they dispatch to.                         *)
(*                                                                         *)
(* One action is one synchronous stretch of code between two awaits: a     *)
(* run starts, walks into the first adapter call and suspends; each        *)
(* settle of the pending call appends the log entry, applies the step's    *)
(* error_handling and walks into the next adapter call or returns.         *)
(***************************************************************************)
EXTENDS Integers, Sequences, FiniteSets, TLC

VARIABLES
    workflow,       \* the workflow document handed to the executor
    mode,           \* which Executor method is running: "none", "execute", "dryRun",
                    \* "executeWithConfirmation"
    pc,             \* "idle", "awaiting" (suspended on executeStep), "done"
    i,              \* the loop index of the for loop
    executionLog,   \* the executionLog accumulator
    results,        \* the results accumulator
    inflight,       \* the pending executeStep call the loop awaits
    outcome,        \* how the method ended: "none", "returned", "thrown"
    returned,       \* the value the method returned (or the fault it threw)
    invocations,    \* every adapter operation invoked so far, in order
    resolutions,    \* how many times the registry was asked (executeTool calls)
    settled,        \* how each awaited call ended (returned a value or threw), in order
    storage,        \* the server's workflow file of the one id: absent or a document
    requests,       \* the server's HTTP requests: position, loaded document, response
    registry,       \* MCPTools.tools: category -> the operations its module exports
    answered,       \* what the last direct call on the registry returned or threw
    recorder,       \* the fields of the Recorder object
    host            \* the recorder's surroundings: the live interval timers, how many
                    \* were created, and the last call made on it with what it returned

vars == << workflow, mode, pc, i, executionLog, results, inflight, outcome,
           returned, invocations, resolutions, settled, storage, requests, registry, answered,
           recorder, host >>

----------------------------------------------------------------------------
(* Bounds of the model *)

MaxSteps == 3

\* the HTTP requests the server receives
MaxRequests == 2

----------------------------------------------------------------------------
(* Inputs: the step lists the executor is run on *)

\* a field that is missing from a step (reads as undefined in JavaScript)
Absent == "undefined"

\* (tool, tool_action, parameters); parameters is the set of keys provided
Call(tool, action, keys) == [tool |-> tool, tool_action |-> action, parameters |-> keys]

ListFiles   == Call("filesystem", "list_files", {"path"})
AliasList   == Call("file", "list_files", {"path"})
RunCommand  == Call("shell", "execute_command", {"command"})
NoCommand   == Call("shell", "execute_command", {})
UnknownTool == Call("database", "query", {"sql"})
UnknownOp   == Call("filesystem", "move_file", {"path"})

\* the steps a list is built from, as <<call, error_handling>>: an adapter that
\* throws, the shell adapter, an unregistered category and an unregistered
\* operation, under stop, continue, ask, an unknown string and no field at all
StepInputs ==
    ({ListFiles} \X {"stop", "continue", "ask"})
        \cup ({AliasList} \X {Absent})
        \cup ({RunCommand} \X {"stop"})
        \cup ({NoCommand} \X {"ask"})
        \cup ({UnknownTool} \X {"stop", "continue", "retry"})
        \cup ({UnknownOp} \X {"stop"})

\* step_number of the step at 1-based position k: contiguous, or with gaps
Numberings == {"contiguous", "gapped"}
StepNumber(numbering, k) == IF numbering = "contiguous" THEN k ELSE 3 * k - 1

MkStep(numbering, k, in) ==
    [ step_number    |-> StepNumber(numbering, k),
      description    |-> StepNumber(numbering, k),
      tool           |-> in[1].tool,
      tool_action    |-> in[1].tool_action,
      parameters     |-> in[1].parameters,
      error_handling |-> in[2] ]

StepLists ==
    UNION { { [k \in 1..n |-> MkStep(num, k, f[k])] : f \in [1..n -> StepInputs] }
            : <<n, num>> \in (0..MaxSteps) \X Numberings }

\* a workflow document: analysis is missing (a document with no field stands
\* for it), has no steps field, or holds a step list
NoAnalysis == [missing |-> TRUE]
Analyses == {NoAnalysis, [goal |-> "g"]} \cup { [steps |-> s] : s \in StepLists }
Workflows == { [id |-> "wf", analysis |-> a] : a \in Analyses }

HasSteps(w) == "steps" \in DOMAIN w.analysis
Steps == workflow.analysis.steps

----------------------------------------------------------------------------
(* The tool registry: MCPTools.tools, category -> exported operation names *)

tools ==
    [ filesystem  |-> {"list_files", "read_file", "write_file", "rename_file",
                       "delete_file", "file_exists", "copy_file", "get_file_info"},
      spreadsheet |-> {"read_spreadsheet", "write_spreadsheet", "sort_data",
                       "filter_data", "append_data", "get_cell"},
      web         |-> {"fetch_url", "parse_html", "submit_form", "parse_json",
                       "get_page_info"},
      shell       |-> {"execute_command", "list_directory", "create_directory",
                       "remove_directory", "get_output"} ]

\* executeStep's alias table: toolMapping[tool] || tool
toolMapping ==
    [ filesystem |-> "filesystem", file |-> "filesystem",
      spreadsheet |-> "spreadsheet", web |-> "web", shell |-> "shell" ]

\* a step's tool used as the category as it stands, without the alias table
ToolCategoryNoAlias(tool) == tool

ToolCategory(tool) == IF tool \in DOMAIN toolMapping THEN toolMapping[tool] ELSE tool

\* the message of an Error: its fixed text and the values spliced into it
Err(msg, args) == [text |-> msg, args |-> args]

\* the function-valued properties every module object inherits from
\* Object.prototype
ObjectPrototype == {"constructor", "hasOwnProperty", "toString", "valueOf"}

\* typeof toolModule[toolName] === 'function': exported or inherited
Callable(toolModule) == toolModule \cup ObjectPrototype

\* no direct call on the registry was made yet
NotAsked == [none |-> TRUE]

\* executeTool without the check of the category: the lookup of the operation
\* on a missing module fails with a TypeError
ResolveToolNoCategoryCheck(toolCategory, toolName, parameters) ==
    IF toolCategory \notin DOMAIN registry
    THEN [kind |-> "rejected", error |-> Err("TypeError", <<>>)]
    ELSE IF toolName \notin Callable(registry[toolCategory])
    THEN [kind |-> "rejected",
          error |-> Err("Tool not found", <<toolCategory, toolName>>)]
    ELSE [kind |-> "invoked", category |-> toolCategory, name |-> toolName,
          parameters |-> parameters]

\* executeTool without the check of the operation: whatever the module holds
\* under the name is called
ResolveToolNoOperationCheck(toolCategory, toolName, parameters) ==
    IF toolCategory \notin DOMAIN registry
    THEN [kind |-> "rejected",
          error |-> Err("Tool category not found", <<toolCategory>>)]
    ELSE [kind |-> "invoked", category |-> toolCategory, name |-> toolName,
          parameters |-> parameters]

\* executeTool up to the adapter call: the thrown error, or the operation to call
ResolveTool(toolCategory, toolName, parameters) ==
    IF toolCategory \notin DOMAIN registry
    THEN [kind |-> "rejected",
          error |-> Err("Tool category not found", <<toolCategory>>)]
    ELSE IF toolName \notin Callable(registry[toolCategory])
    THEN [kind |-> "rejected",
          error |-> Err("Tool not found", <<toolCategory, toolName>>)]
    ELSE [kind |-> "invoked", category |-> toolCategory, name |-> toolName,
          parameters |-> parameters]

----------------------------------------------------------------------------
(* The adapters: every way a pending operation can settle *)

Returns(v) == [kind |-> "return", value |-> v]
Throws(e)  == [kind |-> "throw", error |-> e]

\* filesystem.list_files: throws when the directory does not exist
list_files(params) ==
    IF "path" \notin params
    THEN {Throws(Err("Directory not found", <<Absent>>))}
    ELSE {Returns([success |-> TRUE, count |-> 0]),
          Throws(Err("Directory not found", <<"path">>))}

\* JavaScript values of the fields the shell adapter reads
Num(n) == [num |-> n]
Str(t) == [str |-> t]
Null == [null |-> TRUE]
Undefined == [undefined |-> TRUE]

Truthy(v) == v \notin {Null, Undefined, Num(0), Str("")}

\* a || b
OrElse(a, b) == IF Truthy(a) THEN a ELSE b

\* the Recorder constructor
NewRecorder ==
    [ isRecording |-> FALSE, isPaused |-> FALSE, recordingStartTime |-> 0,
      actions |-> << >>, intents |-> << >>, recordingInterval |-> 0,
      lastMousePos |-> 0, workflowName |-> "" ]

\* no interval timer exists and no call was made
NewHost == [timers |-> {}, created |-> 0, call |-> "none", value |-> Undefined]

\* how the promisified child_process.exec of a command ends: it resolves with
\* the output, or rejects with an error that carries the exit code and the
\* output captured so far (nonzero exit, kill at the timeout, output over the cap)
ExecOutcomes ==
    { [ok |-> TRUE, stdout |-> Str("out"), stderr |-> Str("")],
      [ok |-> FALSE, message |-> Err("Command failed", <<"exit">>),
       code |-> Num(2), status |-> Undefined,
       stdout |-> Str("out"), stderr |-> Str("err")],
      [ok |-> FALSE, message |-> Err("Command failed", <<"timeout">>),
       code |-> Null, status |-> Undefined,
       stdout |-> Str("partial"), stderr |-> Str("")],
      [ok |-> FALSE, message |-> Err("stdout maxBuffer length exceeded", <<>>),
       code |-> Str("ERR_CHILD_PROCESS_STDIO_MAXBUFFER"), status |-> Undefined,
       stdout |-> Str("partial"), stderr |-> Str("")] }

\* the Error thrown for a missing command: none of the exec fields
MissingCommand ==
    [ok |-> FALSE, message |-> Err("Command parameter is required", <<>>),
     code |-> Undefined, status |-> Undefined,
     stdout |-> Undefined, stderr |-> Undefined]

\* the catch block of execute_command
ShellFailure(error) ==
    [ success |-> FALSE,
      stdout |-> OrElse(error.stdout, Str("")),
      stderr |-> OrElse(error.stderr, error.message),
      exitCode |-> OrElse(OrElse(error.code, error.status), Num(1)),
      error |-> error.message ]

ShellSuccess(out) ==
    [ success |-> TRUE, stdout |-> out.stdout, stderr |-> out.stderr,
      exitCode |-> Num(0) ]

\* an execute_command that rethrows what it caught
execute_command_rethrows(params) ==
    IF "command" \notin params
    THEN {Throws(MissingCommand.message)}
    ELSE {IF o.ok THEN Returns(ShellSuccess(o)) ELSE Throws(o.message)
            : o \in ExecOutcomes}

\* an execute_command whose promise never settles when the command is missing
execute_command_hangs(params) ==
    IF "command" \notin params
    THEN {}
    ELSE {Returns(IF o.ok THEN ShellSuccess(o) ELSE ShellFailure(o))
            : o \in ExecOutcomes}

\* shell.execute_command: never throws, failures come back as success:false
execute_command(params) ==
    IF "command" \notin params
    THEN {Returns(ShellFailure(MissingCommand))}
    ELSE {Returns(IF o.ok THEN ShellSuccess(o) ELSE ShellFailure(o))
            : o \in ExecOutcomes}

\* any other registered operation: it returns its result or throws
other_operation(params) ==
    {Returns([success |-> TRUE]), Throws(Err("Operation failed", <<>>))}

\* a file_exists that throws when the path is missing
file_exists_throws(params) ==
    IF "path" \notin params
    THEN {Throws(Err("File not found", <<Absent>>))}
    ELSE {Returns([success |-> TRUE, exists |-> TRUE]),
          Throws(Err("File not found", <<"path">>))}

\* filesystem.file_exists: reports what existsSync says, a missing path included
file_exists(params) ==
    IF "path" \notin params
    THEN {Returns([success |-> TRUE, exists |-> FALSE])}
    ELSE {Returns([success |-> TRUE, exists |-> TRUE]),
          Returns([success |-> TRUE, exists |-> FALSE])}

\* filesystem.rename_file: throws when the old path does not exist, and
\* rethrows what mkdirSync and renameSync throw
rename_file(params) ==
    IF "oldPath" \notin params
    THEN {Throws(Err("File not found", <<Absent>>))}
    ELSE {Throws(Err("File not found", <<"oldPath">>)),
          Throws(Err("rename failed", <<"oldPath", "newPath">>))}
         \cup (IF "newPath" \in params THEN {Returns([success |-> TRUE])} ELSE {})

Adapter(category, name, params) ==
    IF category = "filesystem" /\ name = "list_files" THEN list_files(params)
    ELSE IF category = "filesystem" /\ name = "file_exists" THEN file_exists(params)
    ELSE IF category = "filesystem" /\ name = "rename_file" THEN rename_file(params)
    ELSE IF category = "shell" /\ name = "execute_command" THEN execute_command(params)
    ELSE other_operation(params)

\* the ways the awaited executeTool call settles
Settlements(call) ==
    IF call.kind = "rejected" THEN {Throws(call.error)}
    ELSE Adapter(call.category, call.name, call.parameters)

----------------------------------------------------------------------------
(* Executor.executeStep *)

\* the synchronous part: alias the tool, ask the registry, call the adapter
executeStep(step) ==
    ResolveTool(ToolCategory(step.tool), step.tool_action, step.parameters)

\* the value executeStep returns once the adapter returned `result`
StepResult(step, result) ==
    [ tool |-> step.tool, toolAction |-> step.tool_action,
      parameters |-> step.parameters, result |-> result, success |-> TRUE ]

----------------------------------------------------------------------------
(* Executor.execute *)

Now == "timestamp"

\* a log entry numbered by the step's own step_number
LogStepNumber(idx, step) == step.step_number

\* the `step` field of the log entry written in iteration idx (0-based)
LogStep(idx, step) == idx + 1

SuccessEntry(idx, step, result) ==
    [ step |-> LogStep(idx, step), description |-> step.description,
      status |-> "success", result |-> result, timestamp |-> Now ]

\* an error entry that lost the message of the error
ErrorEntryNoMessage(idx, step, error) ==
    [ step |-> LogStep(idx, step), description |-> step.description,
      status |-> "error", error |-> Err(Absent, <<>>), timestamp |-> Now ]

ErrorEntry(idx, step, error) ==
    [ step |-> LogStep(idx, step), description |-> step.description,
      status |-> "error", error |-> error, timestamp |-> Now ]

\* an entry put at the front of the log instead of its end
PushLogFront(log, entry) == <<entry>> \o log

\* executionLog.push(entry)
PushLog(log, entry) == Append(log, entry)

\* a result put at the front of results instead of its end
PushResultFront(res, result) == <<result>> \o res

\* a push that keeps only the results whose adapter reported success
PushResultIfOk(res, result) ==
    IF result.result.success THEN Append(res, result) ELSE res

\* results.push(result)
PushResult(res, result) == Append(res, result)

\* a loop that does not advance: the same step is walked into again
NextIndexStay(idx) == idx

\* the i++ of the for loop
NextIndex(idx) == idx + 1

\* a catch block that asks only on "ask" and carries on otherwise
FailureBranchAskOnly(error_handling) ==
    IF error_handling = "stop" THEN "stop"
    ELSE IF error_handling = "ask" THEN "ask"
    ELSE "continue"

\* the branch the catch block takes on step.error_handling
FailureBranch(error_handling) ==
    IF error_handling = "stop" THEN "stop"
    ELSE IF error_handling = "continue" THEN "continue"
    ELSE "ask"

\* a stop result that counts the failing step among the completed ones
StopResultCountsFailing(idx, error, log) ==
    [ success |-> FALSE,
      error |-> [prefix |-> "Failed at step", step |-> idx + 1, cause |-> error],
      executionLog |-> log,
      completedSteps |-> idx + 1,
      totalSteps |-> Len(Steps) ]

StopResult(idx, error, log) ==
    [ success |-> FALSE,
      error |-> [prefix |-> "Failed at step", step |-> idx + 1, cause |-> error],
      executionLog |-> log,
      completedSteps |-> idx,
      totalSteps |-> Len(Steps) ]

\* an ask result without its requiresUserInput flag
AskResultNoFlag(idx, error, log) ==
    [ success |-> FALSE,
      error |-> [prefix |-> "Step failed", step |-> idx + 1, cause |-> error],
      executionLog |-> log ]

AskResult(idx, error, log) ==
    [ success |-> FALSE,
      requiresUserInput |-> TRUE,
      error |-> [prefix |-> "Step failed", step |-> idx + 1, cause |-> error],
      executionLog |-> log ]

\* a final result whose flag reflects the failures recorded in the log
SuccessResultStrict(log, res) ==
    [ success |-> \A k \in 1..Len(log) : log[k].status = "success",
      workflowId |-> workflow.id, executionLog |-> log,
      results |-> res, timestamp |-> Now ]

SuccessResult(log, res) ==
    [ success |-> TRUE, workflowId |-> workflow.id, executionLog |-> log,
      results |-> res, timestamp |-> Now ]

\* a failure result that carries an (empty) execution log
FaultResultWithLog(error) ==
    [ success |-> FALSE, error |-> error, timestamp |-> Now,
      executionLog |-> << >> ]

\* the outer catch block
FaultResult(error) ==
    [ success |-> FALSE, error |-> error, timestamp |-> Now ]

\* the method returns `value`
Return(value, log, res) ==
    /\ pc' = "done"
    /\ outcome' = "returned"
    /\ returned' = value
    /\ executionLog' = log
    /\ results' = res
    /\ inflight' = [kind |-> "none"]
    /\ UNCHANGED << i, invocations, resolutions >>

\* the loop head with index j: walk into step j and suspend, or leave the loop
Loop(j, log, res) ==
    IF j < Len(Steps)
    THEN LET call == executeStep(Steps[j + 1]) IN
         /\ pc' = "awaiting"
         /\ i' = j
         /\ inflight' = call
         /\ resolutions' = resolutions + 1
         /\ invocations' = IF call.kind = "invoked"
                           THEN Append(invocations, call) ELSE invocations
         /\ executionLog' = log
         /\ results' = res
         /\ UNCHANGED << outcome, returned >>
    ELSE Return(SuccessResult(log, res), log, res)

\* execute(workflow) is called
Execute ==
    /\ UNCHANGED << recorder, host >>
    /\ pc = "idle"
    /\ UNCHANGED << storage, requests, registry, answered >>
    /\ mode' = "execute"
    /\ UNCHANGED workflow
    /\ UNCHANGED settled
    /\ IF ~HasSteps(workflow)
       THEN Return(FaultResult(Err("Workflow analysis missing or invalid", <<>>)),
                   executionLog, results)
       ELSE Loop(0, << >>, << >>)

\* the awaited executeStep call settles: log, results, error_handling
Settle ==
    /\ UNCHANGED << recorder, host >>
    /\ pc = "awaiting"
    /\ UNCHANGED << storage, requests, registry, answered >>
    /\ mode = "execute"
    /\ UNCHANGED << workflow, mode >>
    /\ \E s \in Settlements(inflight) :
         LET step == Steps[i + 1] IN
         /\ settled' = Append(settled, s)
         /\ IF s.kind = "return"
            THEN LET result == StepResult(step, s.value) IN
                 Loop(NextIndex(i), PushLog(executionLog, SuccessEntry(i, step, result)),
                      PushResult(results, result))
            ELSE LET log == PushLog(executionLog, ErrorEntry(i, step, s.error))
                     branch == FailureBranch(step.error_handling) IN
                 IF branch = "stop"
                 THEN Return(StopResult(i, s.error, log), log, results)
                 ELSE IF branch = "continue"
                 THEN Loop(NextIndex(i), log, results)
                 ELSE Return(AskResult(i, s.error, log), log, results)

----------------------------------------------------------------------------
(* Executor.dryRun: no await, the whole method is one step *)

SimulationEntry(idx, step) ==
    [ step |-> idx + 1, description |-> step.description, tool |-> step.tool,
      parameters |-> step.parameters, expectedOutput |-> Absent,
      wouldExecute |-> TRUE ]

\* a simulation that lists only the steps whose tool it knows
SimulationLogKnownTools(steps) ==
    SelectSeq([k \in 1..Len(steps) |-> SimulationEntry(k - 1, steps[k])],
              LAMBDA e : e.tool \in DOMAIN toolMapping)

SimulationLog(steps) == [k \in 1..Len(steps) |-> SimulationEntry(k - 1, steps[k])]

DryRunResult(steps) ==
    [ success |-> TRUE, isDryRun |-> TRUE, simulationLog |-> SimulationLog(steps),
      timestamp |-> Now ]

\* a dry run that takes the steps off the workflow's list as it walks it
DryRunConsuming ==
    /\ UNCHANGED << recorder, host >>
    /\ pc = "idle"
    /\ UNCHANGED << storage, requests, registry, answered >>
    /\ mode' = "dryRun"
    /\ pc' = "done"
    /\ IF HasSteps(workflow)
       THEN /\ outcome' = "returned"
            /\ returned' = DryRunResult(Steps)
            /\ workflow' = [workflow EXCEPT !.analysis.steps = << >>]
       ELSE /\ outcome' = "thrown"
            /\ returned' = Err("TypeError", <<>>)
            /\ UNCHANGED workflow
    /\ UNCHANGED << i, executionLog, results, inflight, invocations,
                    resolutions, settled >>

DryRun ==
    /\ UNCHANGED << recorder, host >>
    /\ pc = "idle"
    /\ UNCHANGED << storage, requests, registry, answered >>
    /\ mode' = "dryRun"
    /\ pc' = "done"
    /\ IF HasSteps(workflow)
       THEN /\ outcome' = "returned"
            /\ returned' = DryRunResult(Steps)
       ELSE \* analysis.steps of a missing analysis: the TypeError is rethrown
            /\ outcome' = "thrown"
            /\ returned' = Err("TypeError", <<>>)
    /\ UNCHANGED << workflow, i, executionLog, results, inflight, invocations,
                    resolutions, settled >>

----------------------------------------------------------------------------
(* Executor.executeWithConfirmation: the loop without a catch of its own *)

ConfirmationEntry(idx, result) ==
    [ step |-> idx + 1, tool |-> result.tool, toolAction |-> result.toolAction,
      parameters |-> result.parameters, result |-> result.result,
      success |-> result.success, timestamp |-> Now ]

ConfirmationResult(log) ==
    [ success |-> TRUE, executionLog |-> log, timestamp |-> Now ]

\* the catch block rethrows: the caller gets the fault
Throw(error, log) ==
    /\ pc' = "done"
    /\ outcome' = "thrown"
    /\ returned' = error
    /\ executionLog' = log
    /\ inflight' = [kind |-> "none"]
    /\ UNCHANGED << i, results, invocations, resolutions >>

LoopConfirmation(j, log) ==
    IF j < Len(Steps)
    THEN LET call == executeStep(Steps[j + 1]) IN
         /\ pc' = "awaiting"
         /\ i' = j
         /\ inflight' = call
         /\ resolutions' = resolutions + 1
         /\ invocations' = IF call.kind = "invoked"
                           THEN Append(invocations, call) ELSE invocations
         /\ executionLog' = log
         /\ UNCHANGED << results, outcome, returned >>
    ELSE Return(ConfirmationResult(log), log, results)

\* executeWithConfirmation(workflow) is called
ExecuteWithConfirmation ==
    /\ UNCHANGED << recorder, host >>
    /\ pc = "idle"
    /\ UNCHANGED << storage, requests, registry, answered >>
    /\ mode' = "executeWithConfirmation"
    /\ UNCHANGED << workflow, settled >>
    /\ IF ~HasSteps(workflow)
       THEN \* analysis.steps.length of a missing analysis or step list
            Throw(Err("TypeError", <<>>), executionLog)
       ELSE LoopConfirmation(0, << >>)

\* the awaited executeStep call settles; a thrown error leaves the method
ConfirmationSettle ==
    /\ UNCHANGED << recorder, host >>
    /\ pc = "awaiting"
    /\ UNCHANGED << storage, requests, registry, answered >>
    /\ mode = "executeWithConfirmation"
    /\ UNCHANGED << workflow, mode >>
    /\ \E s \in Settlements(inflight) :
         /\ settled' = Append(settled, s)
         /\ IF s.kind = "return"
            THEN LoopConfirmation(NextIndex(i),
                     PushLog(executionLog,
                             ConfirmationEntry(i, StepResult(Steps[i + 1], s.value))))
            ELSE Throw(s.error, executionLog)

----------------------------------------------------------------------------
(* The specification *)

----------------------------------------------------------------------------
(* The HTTP server: storage and the routes of one workflow id *)

NoDocument == [present |-> FALSE]
Document(history) == [present |-> TRUE, executionHistory |-> history]

\* Storage.getWorkflow: null when the file is missing, else a fresh object
\* parsed from the file
getWorkflow(file) == file

\* a write that appends the newest history entry to what the file holds
saveWorkflowAppend(file, doc) ==
    IF file.present /\ doc.executionHistory # << >>
    THEN Document(Append(file.executionHistory,
                         doc.executionHistory[Len(doc.executionHistory)]))
    ELSE doc

\* Storage.saveWorkflow: the file becomes the whole document handed in
saveWorkflow(file, doc) == doc

\* a history entry that reports every run as a success
HistoryEntryAlwaysOk(result) ==
    [ timestamp |-> Now, success |-> TRUE, result |-> result ]

HistoryEntry(result) ==
    [ timestamp |-> Now, success |-> result.success, result |-> result ]

\* an adapter call that waits for the operating system: the executor's await
\* on it gives the event loop the chance to start another request
Suspends(call) ==
    /\ call.kind = "invoked"
    /\ call.category = "shell"
    /\ call.name = "execute_command"
    /\ "command" \in call.parameters

\* executor.execute(workflow) as a whole: the results it can return from loop
\* index j on, and whether the run waited for the operating system
RECURSIVE RunFrom(_, _, _, _)
RunFrom(j, log, res, waited) ==
    IF j >= Len(Steps)
    THEN {[result |-> SuccessResult(log, res), suspended |-> waited]}
    ELSE LET step == Steps[j + 1]
             call == executeStep(step)
             w    == waited \/ Suspends(call)
         IN UNION {
              IF s.kind = "return"
              THEN LET result == StepResult(step, s.value) IN
                   RunFrom(NextIndex(j), PushLog(log, SuccessEntry(j, step, result)),
                           PushResult(res, result), w)
              ELSE LET log2 == PushLog(log, ErrorEntry(j, step, s.error))
                       branch == FailureBranch(step.error_handling) IN
                   IF branch = "stop"
                   THEN {[result |-> StopResult(j, s.error, log2), suspended |-> w]}
                   ELSE IF branch = "continue"
                   THEN RunFrom(NextIndex(j), log2, res, w)
                   ELSE {[result |-> AskResult(j, s.error, log2), suspended |-> w]}
              : s \in Settlements(call) }

Runs ==
    IF ~HasSteps(workflow)
    THEN {[result |-> FaultResult(Err("Workflow analysis missing or invalid", <<>>)),
           suspended |-> FALSE]}
    ELSE RunFrom(0, << >>, << >>, FALSE)

Requests == 1..MaxRequests

NotFound == [status |-> 404, success |-> FALSE, error |-> "Workflow not found"]
Ok(result) == [status |-> 200, success |-> TRUE, result |-> result]

\* the rest of the execute route once executor.execute returned `result`:
\* push the history entry on the loaded document, save it, respond
FinishExecute(r, loaded, result) ==
    LET doc == Document(Append(loaded.executionHistory, HistoryEntry(result))) IN
    /\ storage' = saveWorkflow(storage, doc)
    /\ requests' = [requests EXCEPT ![r] =
                       [pc |-> "done", loaded |-> loaded, executed |-> TRUE,
                        response |-> Ok(result)]]

\* POST /api/workflows/:id/execute arrives: load the document, answer 404 when
\* there is none, else run it; a run that never waits for the operating system
\* is over before the event loop takes anything else
ExecuteRoute(r) ==
    /\ UNCHANGED << recorder, host >>
    /\ requests[r].pc = "idle"
    /\ LET loaded == getWorkflow(storage) IN
       IF ~loaded.present
       THEN /\ requests' = [requests EXCEPT ![r] =
                               [pc |-> "done", loaded |-> loaded,
                                executed |-> FALSE, response |-> NotFound]]
            /\ UNCHANGED storage
       ELSE \/ \E o \in Runs :
                 /\ ~o.suspended
                 /\ FinishExecute(r, loaded, o.result)
            \/ /\ \E o \in Runs : o.suspended
               /\ requests' = [requests EXCEPT ![r] =
                                  [pc |-> "executing", loaded |-> loaded,
                                   executed |-> TRUE, response |-> [status |-> 0]]]
               /\ UNCHANGED storage
    /\ UNCHANGED << workflow, mode, pc, i, executionLog, results, inflight, outcome,
                    returned, invocations, resolutions, settled, registry, answered >>

\* the awaited executor.execute of request r returns
ExecuteRouteResume(r) ==
    /\ UNCHANGED << recorder, host >>
    /\ requests[r].pc = "executing"
    /\ \E o \in Runs :
         /\ o.suspended
         /\ FinishExecute(r, requests[r].loaded, o.result)
    /\ UNCHANGED << workflow, mode, pc, i, executionLog, results, inflight, outcome,
                    returned, invocations, resolutions, settled, registry, answered >>

\* DELETE /api/workflows/:id: unlink the file if it is there
DeleteRoute ==
    /\ UNCHANGED << recorder, host >>
    /\ storage.present
    /\ storage' = NoDocument
    /\ UNCHANGED << workflow, mode, pc, i, executionLog, results, inflight, outcome,
                    returned, invocations, resolutions, settled, requests, registry,
                    answered >>

\* the workflows the server stores: one shell command, one directory listing
\* under stop and under ask, a listing followed by a command, and a document
\* without analysis
ServerWorkflows ==
    { [id |-> "wf", analysis |-> a] :
        a \in { NoAnalysis,
                [steps |-> << MkStep("contiguous", 1, <<RunCommand, "stop">>) >>],
                [steps |-> << MkStep("contiguous", 1, <<ListFiles, "stop">>) >>],
                [steps |-> << MkStep("contiguous", 1, <<ListFiles, "ask">>) >>],
                [steps |-> << MkStep("contiguous", 1, <<ListFiles, "continue">>),
                              MkStep("contiguous", 2, <<RunCommand, "stop">>) >>] } }

\* the store holds the workflow with an empty history, or nothing
InitServer ==
    /\ workflow \in ServerWorkflows
    /\ mode = "none"
    /\ pc = "idle"
    /\ i = 0
    /\ executionLog = << >>
    /\ results = << >>
    /\ inflight = [kind |-> "none"]
    /\ outcome = "none"
    /\ returned = [pending |-> TRUE]
    /\ invocations = << >>
    /\ resolutions = 0
    /\ settled = << >>
    /\ registry = tools
    /\ answered = NotAsked
    /\ recorder = NewRecorder
    /\ host = NewHost
    /\ storage \in {NoDocument, Document(<< >>)}
    /\ requests = [r \in Requests |->
                     [pc |-> "idle", loaded |-> NoDocument, executed |-> FALSE,
                      response |-> [status |-> 0]]]

NextServer ==
    \/ \E r \in Requests : ExecuteRoute(r)
    \/ \E r \in Requests : ExecuteRouteResume(r)
    \/ DeleteRoute

SpecServer == InitServer /\ [][NextServer]_vars

----------------------------------------------------------------------------
(* The main process: the execute-workflow IPC handler *)

\* a stored workflow document
StoredWorkflow(w) ==
    [ present |-> TRUE, executionHistory |-> << >>, id |-> w.id,
      analysis |-> w.analysis ]

\* the handler's argument, the id string, read as a workflow object: a string
\* has no id field and no analysis field
IdArgument == [id |-> Absent, analysis |-> NoAnalysis]

NoResponse == [status |-> 0]

\* the handler's return value once executor.execute returned `result`
IpcResult(result) == [success |-> TRUE, result |-> result]

\* the handler's catch block
IpcFailure(error) == [success |-> FALSE, error |-> error]

\* the store holds some workflow under the id, or nothing; no call was made yet
InitIpc ==
    /\ workflow = IdArgument
    /\ mode = "none"
    /\ pc = "uncalled"
    /\ i = 0
    /\ executionLog = << >>
    /\ results = << >>
    /\ inflight = [kind |-> "none"]
    /\ outcome = "none"
    /\ returned = [pending |-> TRUE]
    /\ invocations = << >>
    /\ resolutions = 0
    /\ settled = << >>
    /\ registry = tools
    /\ answered = NotAsked
    /\ recorder = NewRecorder
    /\ host = NewHost
    /\ storage \in {NoDocument} \cup {StoredWorkflow(w) : w \in Workflows}
    /\ requests = << [pc |-> "idle", response |-> NoResponse] >>

\* ipcMain.handle('execute-workflow') is invoked with the id: it calls
\* executor.execute(id)
IpcExecuteWorkflow ==
    /\ UNCHANGED << recorder, host >>
    /\ requests[1].pc = "idle"
    /\ pc = "uncalled"
    /\ pc' = "idle"
    /\ workflow' = IdArgument
    /\ requests' = [requests EXCEPT ![1].pc = "executing"]
    /\ UNCHANGED << mode, i, executionLog, results, inflight, outcome, returned,
                    invocations, resolutions, settled, storage, registry, answered >>

\* the awaited executor.execute settles: the handler answers
IpcExecuteWorkflowReturn ==
    /\ UNCHANGED << recorder, host >>
    /\ requests[1].pc = "executing"
    /\ pc = "done"
    /\ requests' = [requests EXCEPT ![1] =
                       [pc |-> "done",
                        response |-> IF outcome = "returned"
                                     THEN IpcResult(returned)
                                     ELSE IpcFailure(returned)]]
    /\ UNCHANGED << workflow, mode, pc, i, executionLog, results, inflight, outcome,
                    returned, invocations, resolutions, settled, storage, registry, answered >>

NextIpc == IpcExecuteWorkflow \/ Execute \/ IpcExecuteWorkflowReturn

SpecIpc == InitIpc /\ [][NextIpc]_vars

----------------------------------------------------------------------------
(* The registry called directly: executeTool and the catalog reads *)

\* getToolDefinitions: per category, the names of the operations it lists
ToolDefinitions ==
    [ filesystem  |-> << "list_files", "read_file", "write_file", "rename_file",
                         "delete_file", "file_exists", "copy_file" >>,
      spreadsheet |-> << "read_spreadsheet", "write_spreadsheet", "sort_data",
                         "filter_data" >>,
      web         |-> << "fetch_url", "parse_html", "submit_form" >>,
      shell       |-> << "execute_command" >> ]

\* Object.entries(getToolDefinitions()): the categories in the order written
CategoryOrder == << "filesystem", "spreadsheet", "web", "shell" >>

ListCategory(category) ==
    [ k \in 1..Len(ToolDefinitions[category]) |->
        [category |-> category, name |-> ToolDefinitions[category][k]] ]

\* listAvailableTools: one {category, name} per listed operation, flattened
listAvailableTools ==
    ListCategory(CategoryOrder[1]) \o ListCategory(CategoryOrder[2])
        \o ListCategory(CategoryOrder[3]) \o ListCategory(CategoryOrder[4])

\* the categories and operation names direct calls are made with: the
\* registered categories and an unregistered one; two listed operations, one
\* that is exported but not listed, one that is not exported and one that
\* every object inherits
CategoryInputs == DOMAIN tools \cup {"database"}
OperationInputs ==
    {"list_files", "execute_command", "get_file_info", "move_file", "toString"}

\* an executeTool that registers an empty module for a category it does not know
ExecuteToolRegistering ==
    /\ UNCHANGED << recorder, host >>
    /\ \E c \in CategoryInputs, n \in OperationInputs :
         /\ answered' = [category |-> c, name |-> n,
                         outcome |-> ResolveTool(c, n, {"path"})]
         /\ registry' = IF c \in DOMAIN registry THEN registry
                        ELSE [k \in DOMAIN registry \cup {c} |->
                                IF k = c THEN {} ELSE registry[k]]
    /\ UNCHANGED << workflow, mode, pc, i, executionLog, results, inflight, outcome,
                    returned, invocations, resolutions, settled, storage, requests >>

\* mcpTools.executeTool(category, name, parameters) called directly, up to the
\* adapter call
ExecuteTool ==
    /\ UNCHANGED << recorder, host >>
    /\ \E c \in CategoryInputs, n \in OperationInputs :
         /\ answered' = [category |-> c, name |-> n,
                         outcome |-> ResolveTool(c, n, {"path"})]
         /\ UNCHANGED registry
    /\ UNCHANGED << workflow, mode, pc, i, executionLog, results, inflight, outcome,
                    returned, invocations, resolutions, settled, storage, requests >>

\* mcpTools.getToolDefinitions()
GetToolDefinitions ==
    /\ UNCHANGED << recorder, host >>
    /\ answered' = [definitions |-> ToolDefinitions]
    /\ UNCHANGED << workflow, mode, pc, i, executionLog, results, inflight, outcome,
                    returned, invocations, resolutions, settled, storage, requests,
                    registry >>

\* mcpTools.listAvailableTools()
ListAvailableTools ==
    /\ UNCHANGED << recorder, host >>
    /\ answered' = [list |-> listAvailableTools]
    /\ UNCHANGED << workflow, mode, pc, i, executionLog, results, inflight, outcome,
                    returned, invocations, resolutions, settled, storage, requests,
                    registry >>

InitRegistry ==
    /\ workflow \in ServerWorkflows
    /\ mode = "none"
    /\ pc = "idle"
    /\ i = 0
    /\ executionLog = << >>
    /\ results = << >>
    /\ inflight = [kind |-> "none"]
    /\ outcome = "none"
    /\ returned = [pending |-> TRUE]
    /\ invocations = << >>
    /\ resolutions = 0
    /\ settled = << >>
    /\ registry = tools
    /\ answered = NotAsked
    /\ recorder = NewRecorder
    /\ host = NewHost
    /\ storage = NoDocument
    /\ requests = << >>

\* runs and dry runs of the executor, with direct calls on the registry it
\* shares at any moment in between
NextRegistry ==
    \/ Execute
    \/ Settle
    \/ DryRun
    \/ ExecuteTool
    \/ GetToolDefinitions
    \/ ListAvailableTools

SpecRegistry == InitRegistry /\ [][NextRegistry]_vars

----------------------------------------------------------------------------
(* The Recorder *)

\* the recordings one Recorder is started for, and the actions and intents
\* captured in one recording beyond the ones start generates
MaxRecordings == 2
MaxCaptured == 1
MaxIntents == 1

\* the names start is called with: one given, one left out
Names == {"invoices", Absent}

\* workflowName || `Workflow_${Date.now()}`
WorkflowName(name) == IF name = Absent THEN "Workflow_now" ELSE name

\* getCurrentTimestamp() at start: one reading per recording, later for a later one
StartReading == host.created + 1

\* generateMockActions: the thirteen actions every recording starts with
MockActions ==
    << [type |-> "app-context-change", appName |-> "Explorer"],
       [type |-> "mouse-click", button |-> "left", x |-> 300],
       [type |-> "keyboard", key |-> "ctrl"],
       [type |-> "keyboard", key |-> "a"],
       [type |-> "keyboard", key |-> "ctrl"],
       [type |-> "mouse-move", x |-> 400],
       [type |-> "mouse-click", button |-> "left", x |-> 400],
       [type |-> "keyboard", key |-> "backspace"],
       [type |-> "keyboard", key |-> "enter"],
       [type |-> "mouse-move", x |-> 500],
       [type |-> "app-context-change", appName |-> "Notepad"],
       [type |-> "keyboard", key |-> "ctrl"],
       [type |-> "keyboard", key |-> "s"] >>

\* what getMousePos returns: the mock's fixed point, or where the pointer is
MousePositions == {0, 10}

\* the distance above which a pointer move is recorded
MoveThreshold == 5

Distance(a, b) == IF a >= b THEN a - b ELSE b - a

\* the event sources stop producing once a recording holds this many actions
Room == Len(recorder.actions) < Len(MockActions) + MaxCaptured

\* the condition under which the record methods go on, pause ignored
CapturingIgnoringPause == recorder.isRecording

\* !(!this.isRecording || this.isPaused)
Capturing == recorder.isRecording /\ ~recorder.isPaused

\* a clearInterval that leaves the timer running
clearIntervalNoop(timers, id) == timers

clearInterval(timers, id) == timers \ {id}

Called(call, value) == [host EXCEPT !.call = call, !.value = value]

\* everything but the recorder and its surroundings
others ==
    << workflow, mode, pc, i, executionLog, results, inflight, outcome, returned,
       invocations, resolutions, settled, storage, requests, registry, answered >>

\* recorder.start(workflowName)
Start ==
    /\ \E name \in Names :
         IF recorder.isRecording
         THEN /\ recorder' = recorder
              /\ host' = Called("start", Undefined)
         ELSE LET id == host.created + 1 IN
              /\ host.created < MaxRecordings
              /\ recorder' = [recorder EXCEPT
                                !.isRecording = TRUE,
                                !.isPaused = FALSE,
                                !.recordingStartTime = StartReading,
                                !.actions = MockActions,
                                !.intents = << >>,
                                !.workflowName = WorkflowName(name),
                                !.recordingInterval = id]
              /\ host' = [timers |-> host.timers \cup {id}, created |-> id,
                          call |-> "start", value |-> Undefined]
    /\ UNCHANGED others

\* the recordedData stop returns
RecordedData ==
    [ name |-> recorder.workflowName, startTime |-> recorder.recordingStartTime,
      actionCount |-> Len(recorder.actions), intentCount |-> Len(recorder.intents),
      actions |-> recorder.actions, intents |-> recorder.intents ]

\* recorder.stop()
Stop ==
    /\ IF ~recorder.isRecording
       THEN /\ recorder' = recorder
            /\ host' = Called("stop", Null)
       ELSE /\ recorder' = [recorder EXCEPT !.isRecording = FALSE, !.isPaused = FALSE]
            /\ host' = [Called("stop", RecordedData) EXCEPT
                          !.timers = clearInterval(host.timers,
                                                   recorder.recordingInterval)]
    /\ UNCHANGED others

\* a pause that does not look at isRecording
PauseUnguarded ==
    /\ recorder' = [recorder EXCEPT !.isPaused = TRUE]
    /\ host' = Called("pause", Undefined)
    /\ UNCHANGED others

\* recorder.pause()
Pause ==
    /\ IF ~recorder.isRecording
       THEN recorder' = recorder
       ELSE recorder' = [recorder EXCEPT !.isPaused = TRUE]
    /\ host' = Called("pause", Undefined)
    /\ UNCHANGED others

\* recorder.resume()
Resume ==
    /\ IF ~recorder.isRecording
       THEN recorder' = recorder
       ELSE recorder' = [recorder EXCEPT !.isPaused = FALSE]
    /\ host' = Called("resume", Undefined)
    /\ UNCHANGED others

\* recorder.addIntent(intentDescription)
AddIntent ==
    /\ IF ~recorder.isRecording
       THEN recorder' = recorder
       ELSE /\ Len(recorder.intents) < MaxIntents
            /\ recorder' = [recorder EXCEPT
                              !.intents = Append(@, [description |-> "intent",
                                                     actionIndex |-> Len(recorder.actions)])]
    /\ host' = Called("addIntent", Undefined)
    /\ UNCHANGED others

\* the body of the three record methods: return early, or push the action
Record(call, action) ==
    /\ IF ~Capturing
       THEN recorder' = recorder
       ELSE /\ Room
            /\ recorder' = [recorder EXCEPT !.actions = Append(@, action)]
    /\ host' = Called(call, Undefined)
    /\ UNCHANGED others

\* recorder.recordMouseClick(button)
RecordMouseClick ==
    \E pos \in MousePositions :
        Record("recordMouseClick", [type |-> "mouse-click", button |-> "left", x |-> pos])

\* recorder.recordKeyboardInput(key, text)
RecordKeyboardInput ==
    Record("recordKeyboardInput", [type |-> "keyboard", key |-> "k"])

\* recorder.recordAppContextChange(appName, windowTitle)
RecordAppContextChange ==
    Record("recordAppContextChange", [type |-> "app-context-change", appName |-> "App"])

\* the callback of a live interval timer fires: unless paused,
\* captureMouseMovement records a move of more than the threshold
Tick ==
    /\ \E t \in host.timers, pos \in MousePositions :
         IF ~recorder.isPaused /\ Distance(pos, recorder.lastMousePos) > MoveThreshold
         THEN /\ Room
              /\ recorder' = [recorder EXCEPT
                                !.actions = Append(@, [type |-> "mouse-move", x |-> pos]),
                                !.lastMousePos = pos]
         ELSE recorder' = recorder
    /\ host' = Called("tick", Undefined)
    /\ UNCHANGED others

InitRecorder ==
    /\ workflow = IdArgument
    /\ mode = "none"
    /\ pc = "uncalled"
    /\ i = 0
    /\ executionLog = << >>
    /\ results = << >>
    /\ inflight = [kind |-> "none"]
    /\ outcome = "none"
    /\ returned = [pending |-> TRUE]
    /\ invocations = << >>
    /\ resolutions = 0
    /\ settled = << >>
    /\ registry = tools
    /\ answered = NotAsked
    /\ storage = NoDocument
    /\ requests = << >>
    /\ recorder = NewRecorder
    /\ host = NewHost

NextRecorder ==
    \/ Start
    \/ Stop
    \/ Pause
    \/ Resume
    \/ AddIntent
    \/ RecordMouseClick
    \/ RecordKeyboardInput
    \/ RecordAppContextChange
    \/ Tick

SpecRecorder == InitRecorder /\ [][NextRecorder]_vars

Init ==
    /\ workflow \in Workflows
    /\ mode = "none"
    /\ pc = "idle"
    /\ i = 0
    /\ executionLog = << >>
    /\ results = << >>
    /\ inflight = [kind |-> "none"]
    /\ outcome = "none"
    /\ returned = [pending |-> TRUE]
    /\ invocations = << >>
    /\ resolutions = 0
    /\ settled = << >>
    /\ registry = tools
    /\ answered = NotAsked
    /\ recorder = NewRecorder
    /\ host = NewHost
    /\ storage = NoDocument
    /\ requests = << >>

Next == Execute \/ Settle \/ DryRun

Spec == Init /\ [][Next]_vars

\* every adapter call that can settle eventually does
FairSpec == Spec /\ WF_vars(Settle)

\* the confirmation variant, run on the same workflows
NextConfirmation == ExecuteWithConfirmation \/ ConfirmationSettle

SpecConfirmation == Init /\ [][NextConfirmation]_vars

\* the three-step filesystem workflow: list a directory, ask whether a path
\* exists, rename a file; the first two steps declare stop or continue, the
\* third stop, continue or nothing
FileExists == Call("filesystem", "file_exists", {"path"})
RenameFile == Call("filesystem", "rename_file", {"oldPath", "newPath"})

FilesystemWorkflows ==
    { [id |-> "wf",
       analysis |-> [steps |-> << MkStep(num, 1, <<ListFiles, p1>>),
                                  MkStep(num, 2, <<FileExists, p2>>),
                                  MkStep(num, 3, <<RenameFile, p3>>) >>]]
        : <<num, p1, p2, p3>> \in Numberings \X {"stop", "continue"}
                                   \X {"stop", "continue"}
                                   \X {"stop", "continue", Absent} }

InitFilesystem ==
    /\ workflow \in FilesystemWorkflows
    /\ mode = "none"
    /\ pc = "idle"
    /\ i = 0
    /\ executionLog = << >>
    /\ results = << >>
    /\ inflight = [kind |-> "none"]
    /\ outcome = "none"
    /\ returned = [pending |-> TRUE]
    /\ invocations = << >>
    /\ resolutions = 0
    /\ settled = << >>
    /\ registry = tools
    /\ answered = NotAsked
    /\ recorder = NewRecorder
    /\ host = NewHost
    /\ storage = NoDocument
    /\ requests = << >>

NextFilesystem == Execute \/ Settle

SpecFilesystem == InitFilesystem /\ [][NextFilesystem]_vars

----------------------------------------------------------------------------
(* Successive runs of one workflow object *)

\* the runs one caller makes on the same workflow object
MaxRuns == 2

\* the caller, holding the workflow object of a finished run, notes how the run
\* went and what the object holds now, and is ready to call again: the
\* executor's locals of the finished call are gone
CallAgain ==
    /\ UNCHANGED << recorder, host >>
    /\ pc = "done"
    /\ Len(requests) < MaxRuns - 1
    /\ requests' = Append(requests,
                          [mode |-> mode, outcome |-> outcome, workflow |-> workflow])
    /\ pc' = "idle"
    /\ mode' = "none"
    /\ i' = 0
    /\ executionLog' = << >>
    /\ results' = << >>
    /\ inflight' = [kind |-> "none"]
    /\ outcome' = "none"
    /\ returned' = [pending |-> TRUE]
    /\ invocations' = << >>
    /\ resolutions' = 0
    /\ settled' = << >>
    /\ UNCHANGED << workflow, storage, registry, answered >>

InitRuns ==
    /\ workflow \in ServerWorkflows \cup FilesystemWorkflows
    /\ mode = "none"
    /\ pc = "idle"
    /\ i = 0
    /\ executionLog = << >>
    /\ results = << >>
    /\ inflight = [kind |-> "none"]
    /\ outcome = "none"
    /\ returned = [pending |-> TRUE]
    /\ invocations = << >>
    /\ resolutions = 0
    /\ settled = << >>
    /\ registry = tools
    /\ answered = NotAsked
    /\ recorder = NewRecorder
    /\ host = NewHost
    /\ storage = NoDocument
    /\ requests = << >>

NextRuns ==
    \/ Execute
    \/ Settle
    \/ DryRun
    \/ ExecuteWithConfirmation
    \/ ConfirmationSettle
    \/ CallAgain

SpecRuns == InitRuns /\ [][NextRuns]_vars

----------------------------------------------------------------------------
(* Properties of Executor.execute *)

\* a normal run over a workflow that has a step list
Ran == mode = "execute" /\ HasSteps(workflow)
Finished == Ran /\ pc = "done"

\* the step at 1-based position k was attempted and failed (its call threw)
Failed(k) == k \in 1..Len(settled) /\ settled[k].kind = "throw"
Policy(k) == Steps[k].error_handling

\* C1: when the step at 0-based position k-1 fails and its error_handling is
\* stop, the run is over: the result has success:false, the triggering error,
\* completedSteps = k-1 and totalSteps = the number of steps, the log has exactly
\* k entries, the last with status error, and no step after it was attempted,
\* whatever happened to the steps before it.
C1_StopTerminates ==
    Ran => \A k \in 1..Len(settled) :
        (Failed(k) /\ Policy(k) = "stop") =>
            /\ pc = "done"
            /\ outcome = "returned"
            /\ returned.success = FALSE
            /\ "completedSteps" \in DOMAIN returned
            /\ returned.error.cause = settled[k].error
            /\ returned.completedSteps = k - 1
            /\ returned.totalSteps = Len(Steps)
            /\ returned.executionLog = executionLog
            /\ Len(executionLog) = k
            /\ executionLog[k].status = "error"
            /\ resolutions = k
            /\ Len(settled) = k
            /\ Len(invocations) <= k

\* a run stopped at its second step after a suppressed failure of the first,
\* with a third step left
C1_Witness ==
    /\ Finished
    /\ Len(Steps) = 3
    /\ Failed(1) /\ Policy(1) = "continue"
    /\ Failed(2) /\ Policy(2) = "stop"
    /\ returned.completedSteps = 1

\* every failure so far was of a step whose error_handling is continue
AllFailuresContinue == \A k \in 1..Len(settled) : Failed(k) => Policy(k) = "continue"

\* C2: if every step that fails has error_handling continue, the finished run
\* attempted every step, its log has one entry per step (error for the failed
\* ones, success for the others) and its success flag is true however many
\* steps failed.
C2_ContinueSucceeds ==
    (Finished /\ AllFailuresContinue) =>
        /\ outcome = "returned"
        /\ returned.success = TRUE
        /\ returned.executionLog = executionLog
        /\ Len(executionLog) = Len(Steps)
        /\ Len(settled) = Len(Steps)
        /\ resolutions = Len(Steps)
        /\ \A k \in 1..Len(Steps) :
              executionLog[k].status = IF Failed(k) THEN "error" ELSE "success"

\* a finished three-step run in which two steps failed under continue
C2_Witness ==
    /\ Finished
    /\ Len(Steps) = 3
    /\ AllFailuresContinue
    /\ Cardinality({k \in 1..3 : Failed(k)}) >= 2
    /\ returned.success = TRUE

\* C3: when a step fails and its error_handling is neither stop nor continue
\* (ask, an unknown string, no field), the run is over at that step: the result
\* has success:false, requiresUserInput:true, the error and the log so far,
\* which ends with that step's error entry, and no later step was attempted.
C3_AskTerminates ==
    Ran => \A k \in 1..Len(settled) :
        (Failed(k) /\ Policy(k) \notin {"stop", "continue"}) =>
            /\ pc = "done"
            /\ outcome = "returned"
            /\ returned.success = FALSE
            /\ "requiresUserInput" \in DOMAIN returned
            /\ returned.requiresUserInput = TRUE
            /\ returned.error.cause = settled[k].error
            /\ returned.executionLog = executionLog
            /\ Len(executionLog) = k
            /\ executionLog[k].status = "error"
            /\ resolutions = k
            /\ Len(settled) = k

\* a run that ended asking for user input at a step with no error_handling
\* field, with a step left after it
C3_Witness ==
    /\ Finished
    /\ \E k \in 1..Len(settled) :
          /\ Failed(k) /\ Policy(k) = Absent /\ k < Len(Steps)
    /\ returned.requiresUserInput = TRUE

\* the adapter of the step at position k reported its failure in its return
\* value (success:false) instead of throwing
ReturnedFailure(k) ==
    /\ k \in 1..Len(settled)
    /\ settled[k].kind = "return"
    /\ settled[k].value.success = FALSE

\* C4: a step whose adapter returns success:false is a failed step like one
\* whose adapter throws: its log entry has status error, it adds nothing to
\* results, and its stop / continue / ask policy is applied.
C4_ReturnedFailureIsFailure ==
    Ran => \A k \in 1..Len(settled) :
        ReturnedFailure(k) =>
            /\ executionLog[k].status = "error"
            /\ \A r \in 1..Len(results) : results[r].result.success
            /\ Policy(k) # "continue" => pc = "done" /\ returned.success = FALSE

\* C5: a dry run over an N-step list returns success:true, isDryRun:true and a
\* simulation log of exactly N entries in step order, each wouldExecute:true
\* and none with a status; the registry was not asked and no adapter operation
\* was invoked, whatever the steps' tool, tool_action and error_handling.
C5_DryRunSimulates ==
    (mode = "dryRun" /\ HasSteps(workflow)) =>
        /\ pc = "done"
        /\ outcome = "returned"
        /\ returned.success = TRUE
        /\ returned.isDryRun = TRUE
        /\ Len(returned.simulationLog) = Len(Steps)
        /\ \A k \in 1..Len(returned.simulationLog) :
              LET e == returned.simulationLog[k] IN
              /\ e.wouldExecute = TRUE
              /\ e.step = k
              /\ e.description = Steps[k].description
              /\ e.tool = Steps[k].tool
              /\ "status" \notin DOMAIN e
              /\ "error" \notin DOMAIN e
        /\ resolutions = 0
        /\ invocations = << >>
        /\ settled = << >>
    /\ registry = tools
    /\ answered = NotAsked
    /\ recorder = NewRecorder
    /\ host = NewHost
        /\ executionLog = << >>

\* a finished dry run over three steps, one of them of an unregistered category
C5_Witness ==
    /\ mode = "dryRun"
    /\ pc = "done"
    /\ HasSteps(workflow)
    /\ Len(Steps) = 3
    /\ Steps[2].tool = "database"
    /\ Len(returned.simulationLog) = 3

IsPrefix(s, t) == Len(s) <= Len(t) /\ \A k \in 1..Len(s) : s[k] = t[k]

\* the log holds one entry for each attempted step, in the order of the list
LogFollowsSteps ==
    Ran =>
        /\ Len(executionLog) = Len(settled)
        /\ Len(executionLog) <= Len(Steps)
        /\ \A k \in 1..Len(executionLog) :
              executionLog[k].description = Steps[k].description
        /\ \A k \in 1..Len(settled) :
              (Failed(k) /\ Policy(k) # "continue") => Len(executionLog) = k

\* C7: at every point of every run the log only grows at its end, and its
\* entries are those of a prefix of the step list, in list order, with no step
\* skipped or repeated and no entry for a step after an aborting one.
C7_LogAppendOnlyInOrder ==
    /\ []LogFollowsSteps
    /\ [][IsPrefix(executionLog, executionLog')]_vars

\* a log of three entries, the second one an error
C7_Witness ==
    /\ Ran
    /\ Len(executionLog) = 3
    /\ executionLog[2].status = "error"
    /\ executionLog[3].description = Steps[3].description

\* C8 as claimed: the step field of a log entry is the step_number of the step
\* that produced it, also when the step_numbers are not contiguous.
C8_StepIsStepNumber ==
    Ran => \A k \in 1..Len(executionLog) :
        executionLog[k].step = Steps[k].step_number

\* C8 as amended: the step field of a log entry is the 1-based position in the
\* list of the step that produced it, and the steps run in list order (which
\* is ascending step_number order for a list sorted by step_number).
C8_StepIsPosition ==
    Ran => \A k \in 1..Len(executionLog) :
        /\ executionLog[k].step = k
        /\ executionLog[k].description = Steps[k].description
        /\ k > 1 => Steps[k - 1].step_number < Steps[k].step_number

\* a three-entry log of a list numbered 2, 5, 8
C8_Witness ==
    /\ Ran
    /\ Len(executionLog) = 3
    /\ Steps[3].step_number = 8
    /\ executionLog[3].step = 3

ShapeSuccess == {"success", "workflowId", "executionLog", "results", "timestamp"}
ShapeStop    == {"success", "error", "executionLog", "completedSteps", "totalSteps"}
ShapeAsk     == {"success", "requiresUserInput", "error", "executionLog"}
ShapeFault   == {"success", "error", "timestamp"}

\* C9 as claimed: every result of a run over a step list has one of the three
\* documented shapes, each with a timestamp and the execution log.
C9_ThreeShapes ==
    Finished =>
        /\ outcome = "returned"
        /\ DOMAIN returned \in
              {ShapeSuccess, ShapeStop \cup {"timestamp"}, ShapeAsk \cup {"timestamp"}}

\* C9 as amended: every result of a run has one of four shapes: the success
\* shape with a timestamp; the stop shape and the ask shape, both without a
\* timestamp; and, for a workflow without analysis.steps, {success:false,
\* error, timestamp} without an execution log. Every result carries a success
\* flag, and the first three carry the execution log.
C9_FourShapes ==
    (mode = "execute" /\ pc = "done") =>
        /\ outcome = "returned"
        /\ DOMAIN returned \in {ShapeSuccess, ShapeStop, ShapeAsk, ShapeFault}
        /\ DOMAIN returned = ShapeSuccess => returned.success = TRUE
        /\ DOMAIN returned # ShapeSuccess => returned.success = FALSE
        /\ DOMAIN returned = ShapeAsk => returned.requiresUserInput = TRUE
        /\ DOMAIN returned # ShapeFault => returned.executionLog = executionLog
        /\ DOMAIN returned = ShapeFault <=> ~HasSteps(workflow)

\* a run that ended asking for user input
C9_Witness ==
    /\ mode = "execute"
    /\ pc = "done"
    /\ DOMAIN returned = ShapeAsk
    /\ Len(returned.executionLog) = 2

\* C10: every error of a step (unknown category, unknown operation, adapter
\* validation error, adapter execution error) ends up in that step's log entry
\* and never leaves the run as a fault: a finished run has returned a result.
C10_ErrorsBecomeLogEntries ==
    mode = "execute" =>
        /\ outcome # "thrown"
        /\ pc = "done" => (outcome = "returned" /\ "success" \in DOMAIN returned)
        /\ HasSteps(workflow) =>
              /\ Len(executionLog) = Len(settled)
              /\ \A k \in 1..Len(settled) :
                    Failed(k) => /\ executionLog[k].status = "error"
                                 /\ executionLog[k].error = settled[k].error

\* a finished run whose three steps failed with an unknown category, an
\* adapter error and an unknown operation
C10_Witness ==
    /\ Finished
    /\ Len(executionLog) = 3
    /\ \A k \in 1..3 : Failed(k)
    /\ {executionLog[k].error.text : k \in 1..3} =
          {"Tool category not found", "Directory not found", "Tool not found"}
    /\ outcome = "returned"

----------------------------------------------------------------------------
(* Properties of Executor.executeWithConfirmation *)

RanConfirmation == mode = "executeWithConfirmation" /\ HasSteps(workflow)

\* a failure that ends a normal run: the step's error_handling is not continue
Aborting(k) == Failed(k) /\ Policy(k) # "continue"

\* C11: the confirmation variant ends like the normal run on the same steps
\* with the same step outcomes: it returns a result and never throws, a failure
\* under continue is followed by the next step, an aborting failure gives
\* success:false and its absence success:true, and the log has one entry with
\* a status per attempted step.
C11_ConfirmationLikeExecute ==
    (RanConfirmation /\ pc = "done") =>
        /\ outcome = "returned"
        /\ \A k \in 1..Len(settled) :
              (Failed(k) /\ Policy(k) = "continue" /\ k < Len(Steps)) => Len(settled) > k
        /\ returned.success = ~(\E k \in 1..Len(settled) : Aborting(k))
        /\ Len(returned.executionLog) = Len(settled)
        /\ \A k \in 1..Len(settled) :
              /\ "status" \in DOMAIN returned.executionLog[k]
              /\ returned.executionLog[k].status =
                    IF Failed(k) THEN "error" ELSE "success"

----------------------------------------------------------------------------
(* Properties of the registry *)

\* the registry holds an operation `name` in the category
Registered(category, name) == category \in DOMAIN tools /\ name \in tools[category]

\* the tool tokens that stand for a registered category, directly or as alias
KnownTools == {"filesystem", "file", "spreadsheet", "web", "shell"}

\* the steps walked into so far whose tool stands for a registered category
KnownAttempted == {k \in 1..resolutions : Steps[k].tool \in KnownTools}

CategoryAsked(step) == IF step.tool = "file" THEN "filesystem" ELSE step.tool

----------------------------------------------------------------------------
(* Properties of the loop *)

\* every step walked into so far was walked into once: the attempts are the
\* first `resolutions` steps, all but the pending one have settled, and each
\* resolved operation was invoked once
SinglePass ==
    Ran =>
        /\ resolutions <= Len(Steps)
        /\ resolutions = Len(settled) + (IF pc = "awaiting" THEN 1 ELSE 0)
        /\ pc = "awaiting" => i = Len(settled)
        /\ Len(invocations) =
              Cardinality({k \in 1..resolutions :
                              Registered(CategoryAsked(Steps[k]), Steps[k].tool_action)})

\* C15: within a run each step is attempted at most once: the step walked into
\* is always the first one never attempted before, a step that has settled
\* (succeeded or failed) stays as it settled, and no operation is invoked twice.
C15_AttemptedAtMostOnce ==
    /\ []SinglePass
    /\ [][/\ resolutions' \in {resolutions, resolutions + 1}
          /\ resolutions' = resolutions + 1 => i' = resolutions
          /\ IsPrefix(settled, settled')
          /\ IsPrefix(invocations, invocations')
          /\ Len(invocations') <= Len(invocations) + 1]_vars

\* a finished run of three steps whose second step failed under continue
C15_Witness ==
    /\ Finished
    /\ Len(Steps) = 3
    /\ Failed(2) /\ Policy(2) = "continue"
    /\ resolutions = 3
    /\ Len(settled) = 3

\* the results of the log entries with status success, in the order of the log
SuccessResultsOf(log) ==
    LET ok == SelectSeq(log, LAMBDA e : e.status = "success") IN
    [k \in 1..Len(ok) |-> ok[k].result]

\* C16: at every point of a run, results holds one element per log entry with
\* status success, in the same order, so it is never longer than the log; a
\* failed step, also one suppressed by continue, adds a log entry and no result.
C16_ResultsOfSuccesses ==
    Ran =>
        /\ Len(results) <= Len(executionLog)
        /\ results = SuccessResultsOf(executionLog)
        /\ Len(results) = Cardinality({k \in 1..Len(settled) : ~Failed(k)})
        /\ (pc = "done" /\ "results" \in DOMAIN returned) => returned.results = results

\* a log of three entries, the second an error, with two results
C16_Witness ==
    /\ Ran
    /\ Len(executionLog) = 3
    /\ executionLog[2].status = "error"
    /\ Len(results) = 2

\* the operations invoked and not yet settled
InFlight ==
    Len(invocations)
        - Cardinality({k \in 1..Len(settled) :
                          Registered(CategoryAsked(Steps[k]), Steps[k].tool_action)})

\* C17: every run over a step list terminates, given that every adapter call
\* settles: it ends with a result whose success flag is true (completed) or
\* false (aborted); at most one operation of the run is in flight at any time;
\* and once the result is there no step is invoked and no log entry appended.
C17_RunTerminates ==
    /\ Ran ~> (Finished /\ outcome = "returned" /\ returned.success \in BOOLEAN)
    /\ [](Ran => /\ InFlight \in {0, 1}
                 /\ InFlight = 1 => pc = "awaiting"
                 /\ pc = "done" => inflight.kind = "none")
    /\ [][pc = "done" => /\ pc' = "done"
                         /\ returned' = returned
                         /\ executionLog' = executionLog
                         /\ invocations' = invocations
                         /\ resolutions' = resolutions]_vars

\* a run that was aborted at its third step, after three invocations
C17_Witness ==
    /\ Finished
    /\ Len(Steps) = 3
    /\ Len(invocations) = 3
    /\ InFlight = 0
    /\ returned.success = FALSE

----------------------------------------------------------------------------
(* Properties of the shell adapter *)

ShellStep(k) == Steps[k].tool = "shell" /\ Steps[k].tool_action = "execute_command"

----------------------------------------------------------------------------
(* The three-step filesystem workflow, end to end *)

\* the outcome of a call that found its path missing
ReportsMissing(o) ==
    \/ o.kind = "throw"
    \/ o.kind = "return" /\ "exists" \in DOMAIN o.value /\ o.value.exists = FALSE

\* the directory existed, the path asked about did not, the old path of the
\* rename did not
FilesystemScenario ==
    /\ Finished
    /\ Len(Steps) = 3
    /\ Steps[2].tool_action = "file_exists"
    /\ Steps[3].tool_action = "rename_file"
    /\ Len(settled) = 3
    /\ settled[1].kind = "return"
    /\ ReportsMissing(settled[2])
    /\ settled[3] = Throws(Err("File not found", <<"oldPath">>))

LogStatuses == [k \in 1..Len(executionLog) |-> executionLog[k].status]

StoppedAtThird ==
    /\ outcome = "returned"
    /\ returned.success = FALSE
    /\ "completedSteps" \in DOMAIN returned
    /\ returned.completedSteps = 2
    /\ "totalSteps" \in DOMAIN returned
    /\ returned.totalSteps = 3

\* C20 as claimed: in the three-step filesystem workflow, stop is the policy of
\* step 3 when it is declared and when nothing is declared: the run yields
\* success:false, completedSteps 2, totalSteps 3 and the log success, success,
\* error.
C20_DefaultStop ==
    (FilesystemScenario /\ Steps[3].error_handling \in {"stop", Absent}) =>
        /\ LogStatuses = <<"success", "success", "error">>
        /\ StoppedAtThird

\* C20 as amended: in the three-step filesystem workflow the log is success,
\* success, error (file_exists on a missing path is a successful step); when
\* step 3 declares error_handling stop the run yields success:false,
\* completedSteps 2 and totalSteps 3; when step 3 declares nothing the run
\* yields success:false with requiresUserInput and no step counts.
C20_DeclaredStop ==
    FilesystemScenario =>
        /\ LogStatuses = <<"success", "success", "error">>
        /\ Steps[3].error_handling = "stop" => StoppedAtThird
        /\ Steps[3].error_handling = Absent =>
              /\ outcome = "returned"
              /\ returned.success = FALSE
              /\ "requiresUserInput" \in DOMAIN returned
              /\ "completedSteps" \notin DOMAIN returned

\* the scenario ran under a declared stop policy on step 3
C20_Witness ==
    /\ FilesystemScenario
    /\ Steps[3].error_handling = "stop"
    /\ settled[2] = Returns([success |-> TRUE, exists |-> FALSE])
    /\ StoppedAtThird

----------------------------------------------------------------------------
(* Concurrent execute requests of one workflow *)

Answered(r) == requests[r].pc = "done" /\ requests[r].response.status = 200

CompletedRuns == Cardinality({r \in Requests : Answered(r)})

StoredHistory == IF storage.present THEN storage.executionHistory ELSE << >>

\* C18: runs of one workflow are not serialized: a request that finishes its
\* run writes back the document it loaded at its start plus its own history
\* entry, whatever was written to the file since, so the stored history never
\* has more entries than runs completed and may have fewer.
C18_HistoryWriteOverwrites ==
    /\ [](Len(StoredHistory) <= CompletedRuns)
    /\ [][\A r \in Requests :
            (requests[r].pc # "done" /\ Answered(r)') =>
                /\ storage'.present
                /\ storage'.executionHistory =
                      Append(requests'[r].loaded.executionHistory,
                             HistoryEntry(requests'[r].response.result))]_vars

\* two requests loaded the document with its empty history, both completed
\* their run, and the stored history holds one entry
C18_Witness ==
    /\ \A r \in {1, 2} : Answered(r) /\ requests[r].loaded = Document(<< >>)
    /\ storage.present
    /\ Len(storage.executionHistory) = 1

----------------------------------------------------------------------------
(* The execute-workflow IPC handler *)

\* C21: once the execute-workflow handler has answered: when storage holds no
\* document for the id the answer is {success:false, error:'Workflow not
\* found'}; otherwise the executor was handed the stored workflow, and for a
\* stored step list the answer carries the result of running those steps (a
\* result with an execution log).
C21_HandlerRunsStoredWorkflow ==
    (Len(requests) = 1 /\ requests[1].pc = "done") =>
        IF ~storage.present
        THEN requests[1].response = IpcFailure("Workflow not found")
        ELSE /\ workflow = [id |-> storage.id, analysis |-> storage.analysis]
             /\ requests[1].response.success = TRUE
             /\ HasSteps(storage) =>
                   "executionLog" \in DOMAIN requests[1].response.result

----------------------------------------------------------------------------
(* The registry *)

\* C22: the registry is read-only after construction: no resolution, step
\* execution, dry run or catalog read, successful or failing, adds, removes or
\* replaces a category or operation, so resolving a given (category,
\* operation) has the same outcome before, during and after runs.
C22_RegistryReadOnly ==
    /\ [](registry = tools)
    /\ [][/\ registry' = registry
          /\ \A c \in CategoryInputs, n \in OperationInputs :
                ResolveTool(c, n, {"path"})' = ResolveTool(c, n, {"path"})]_vars

\* a run that resolved a step has finished, and a direct call for a category
\* the registry does not hold was rejected
C22_Witness ==
    /\ Finished
    /\ resolutions >= 1
    /\ "outcome" \in DOMAIN answered
    /\ answered.category = "database"
    /\ answered.outcome.kind = "rejected"
    /\ registry = tools

CatalogPairs ==
    { <<listAvailableTools[k].category, listAvailableTools[k].name>> :
        k \in 1..Len(listAvailableTools) }

\* C24: the catalog is the full catalog: every (category, operation) that
\* listAvailableTools returned resolves to an adapter operation, and every
\* (category, operation) that executeTool resolved is listed in the catalog
\* under its category.
C24_CatalogIsFull ==
    /\ "list" \in DOMAIN answered =>
          \A k \in 1..Len(answered.list) :
              ResolveTool(answered.list[k].category, answered.list[k].name,
                          {"path"}).kind = "invoked"
    /\ ("outcome" \in DOMAIN answered /\ answered.outcome.kind = "invoked") =>
          <<answered.category, answered.name>> \in CatalogPairs

----------------------------------------------------------------------------
(* The input of a run *)

\* C23: a run, normal, confirmation or dry, leaves its input unchanged: the
\* workflow, its step list and every field of every step are the same after
\* every step of the run, whatever the outcome; apart from its own locals the
\* executor changes nothing (not the store, not the registry); and a second
\* run of the same workflow object finds the step list the first one found.
C23_InputUnchanged ==
    /\ [][/\ workflow' = workflow
          /\ storage' = storage
          /\ registry' = registry]_vars
    /\ [](\A k \in 1..Len(requests) : requests[k].workflow = workflow)

\* after a normal run that was aborted, a confirmation run of the same workflow
\* object has thrown at its third step
C23_Witness ==
    /\ Len(requests) = 1
    /\ requests[1].mode = "execute"
    /\ mode = "executeWithConfirmation"
    /\ pc = "done"
    /\ outcome = "thrown"
    /\ HasSteps(workflow)
    /\ Len(settled) = 3

----------------------------------------------------------------------------
(* The Recorder: pause, timer and wrong-state calls *)

RecordCalls == {"recordMouseClick", "recordKeyboardInput", "recordAppContextChange"}

\* C25: while the recorder is paused no record method and no timer tick appends
\* an action, whereas addIntent appends an intent stamped with the current
\* number of actions; pause and resume leave the captured actions and intents
\* as they are; and a record call right after resume appends again.
C25_PausedCapturesNothing ==
    /\ [][(recorder.isPaused /\ host'.call \in RecordCalls \cup {"tick"}) =>
              recorder'.actions = recorder.actions]_vars
    /\ [][(recorder.isRecording /\ recorder.isPaused /\ host'.call = "addIntent") =>
              /\ recorder'.actions = recorder.actions
              /\ recorder'.intents =
                    Append(recorder.intents,
                           [description |-> "intent",
                            actionIndex |-> Len(recorder.actions)])]_vars
    /\ [][host'.call \in {"pause", "resume"} =>
              /\ recorder'.actions = recorder.actions
              /\ recorder'.intents = recorder.intents]_vars
    /\ [][(recorder.isRecording /\ host.call = "resume" /\ host'.call \in RecordCalls) =>
              /\ Len(recorder'.actions) = Len(recorder.actions) + 1
              /\ SubSeq(recorder'.actions, 1, Len(recorder.actions))
                    = recorder.actions]_vars

\* the timer ticked while the recorder was paused, after an intent was added
\* in the pause, and the recording holds the actions it held
C25_Witness ==
    /\ recorder.isRecording
    /\ recorder.isPaused
    /\ host.call = "tick"
    /\ recorder.actions = MockActions
    /\ Len(recorder.intents) = 1
    /\ recorder.intents[1].actionIndex = Len(MockActions)

\* C26: in every state of the recorder isPaused implies isRecording, and an
\* interval timer is live exactly when isRecording is true, never more than
\* one (the one recordingInterval names); and nothing appends an action
\* between stop and the next start.
C26_TimerIffRecording ==
    /\ [](/\ recorder.isPaused => recorder.isRecording
          /\ Cardinality(host.timers) <= 1
          /\ (host.timers # {}) <=> recorder.isRecording
          /\ recorder.isRecording => host.timers = {recorder.recordingInterval})
    /\ [][(~recorder.isRecording /\ ~recorder'.isRecording) =>
              recorder'.actions = recorder.actions]_vars

\* the second recording is running, paused, with its one timer
C26_Witness ==
    /\ host.created = 2
    /\ recorder.isRecording
    /\ recorder.isPaused
    /\ host.timers = {2}

\* C27: calls in the wrong state change nothing: start during a recording
\* leaves every field of the recorder as it is and creates no timer; stop,
\* pause, resume and addIntent outside a recording leave every field as it is,
\* and stop then returns null.
C27_WrongStateNoChange ==
    /\ [][(recorder.isRecording /\ host'.call = "start") =>
              /\ recorder' = recorder
              /\ host'.timers = host.timers
              /\ host'.created = host.created]_vars
    /\ [][(~recorder.isRecording
             /\ host'.call \in {"stop", "pause", "resume", "addIntent"}) =>
              /\ recorder' = recorder
              /\ host'.timers = host.timers
              /\ host'.call = "stop" => host'.value = Null]_vars

\* stop was called after the recording had been stopped, and returned null
C27_Witness ==
    /\ ~recorder.isRecording
    /\ host.created >= 1
    /\ host.call = "stop"
    /\ host.value = Null
    /\ Len(recorder.actions) >= Len(MockActions)

----------------------------------------------------------------------------
(* The execute route, one request at a time, and the delete route *)

\* request r gets its answer in this step
Answers(r) == requests[r].pc # "done" /\ requests'[r].pc = "done"

\* nothing else ran or wrote between the load of r and its answer: no other
\* request is in its run, and the file is as r loaded it
Alone(r) ==
    /\ \A q \in Requests \ {r} : requests[q].pc # "executing"
    /\ storage = requests'[r].loaded

\* C28: a request of the execute route that does not overlap another, on a
\* stored workflow, appends exactly one entry to the stored executionHistory,
\* whatever the outcome of the run, and the entry's success is the run's
\* success flag; on an id that is not stored the route answers 404, does not
\* call the executor and leaves storage as it is.
C28_OneEntryPerRequest ==
    /\ [][\A r \in Requests :
            (Answers(r) /\ requests'[r].response.status = 200 /\ Alone(r)) =>
                LET result == requests'[r].response.result IN
                /\ storage.present
                /\ storage'.present
                /\ storage'.executionHistory =
                      Append(storage.executionHistory, HistoryEntry(result))
                /\ storage'.executionHistory[Len(storage'.executionHistory)].success
                      = result.success]_vars
    /\ [][\A r \in Requests :
            (requests[r].pc = "idle" /\ requests'[r].pc # "idle") =>
                IF storage.present
                THEN requests'[r].executed
                ELSE /\ requests'[r].pc = "done"
                     /\ requests'[r].response = NotFound
                     /\ ~requests'[r].executed
                     /\ storage' = storage]_vars

\* a run that asked for user input was answered, and its entry, with success
\* false, is the stored history
C28_Witness ==
    /\ Len(requests) >= 1
    /\ requests[1].pc = "done"
    /\ requests[1].response.status = 200
    /\ "requiresUserInput" \in DOMAIN requests[1].response.result
    /\ storage.present
    /\ Len(storage.executionHistory) = 1
    /\ storage.executionHistory[1].success = FALSE
    /\ storage.executionHistory[1].result = requests[1].response.result

\* C29: once the document of the id is deleted it stays absent from storage
\* (the model has no route that saves under an id again), also when an execute
\* request for the id was in its run at the time of the delete.
C29_DeleteIsDurable ==
    [][~storage.present => ~storage'.present]_vars

----------------------------------------------------------------------------
(* Executor.execute on a workflow without steps *)

\* C30: execute on a workflow whose analysis, or whose analysis.steps, is
\* missing calls no adapter and does not throw: it returns success false, the
\* error 'Workflow analysis missing or invalid' and a timestamp, and no
\* execution log; on a workflow with an empty step list it returns success
\* true with an empty executionLog and empty results.
C30_NoStepsToRun ==
    (mode = "execute" /\ pc = "done") =>
        /\ ~HasSteps(workflow) =>
              /\ outcome = "returned"
              /\ DOMAIN returned = {"success", "error", "timestamp"}
              /\ returned.success = FALSE
              /\ returned.error.text = "Workflow analysis missing or invalid"
              /\ returned.timestamp = Now
              /\ invocations = << >>
              /\ resolutions = 0
              /\ settled = << >>
        /\ (HasSteps(workflow) /\ Steps = << >>) =>
              /\ outcome = "returned"
              /\ returned.success = TRUE
              /\ returned.executionLog = << >>
              /\ returned.results = << >>
              /\ invocations = << >>
              /\ resolutions = 0

\* execute has returned on a document that has an analysis without steps
C30_Witness ==
    /\ mode = "execute"
    /\ pc = "done"
    /\ workflow.analysis = [goal |-> "g"]
    /\ returned.success = FALSE

====
